---- MODULE Spec2Model ----
(***************************************************************************)
(* Model of the vectorized-test repository: the platform handle layer      *)
(* (init_handle, seek_and_write, flush_file, destroy_handle; a POSIX and a  *)
(* Windows implementation), zarr::FileSink on top of it, and the benchmark *)
(* driver (kernel, main).                                                  *)
(***************************************************************************)
EXTENDS Integers, Sequences, FiniteSets, Bags, TLC

VARIABLES
    platform,   \* which implementation of the handle layer is linked in
    files,      \* the file system: path -> [exists, bytes]
    fds,        \* the OS descriptor table: descriptor -> path it is open on, or Closed
    heap,       \* the `new int` / `new HANDLE` cells: address -> [alloc, val]
    sinks,      \* the FileSink objects: slot -> [live, handle_]
    call,       \* the FileSink::write call in progress or last finished
    vcall,      \* the write_vectors call in progress or last finished
    last,       \* what the last constructor / destructor call did
    prog        \* the program using the sinks (kernel / main): its position and output

vars == <<platform, files, fds, heap, sinks, call, vcall, last, prog>>

----------------------------------------------------------------------------
(* Bounds of the model *)

MaxSinks == 2       \* FileSink objects alive at once
MaxLen == 3         \* longest buffer handed to FileSink::write
MaxOffset == 1      \* largest offset handed to FileSink::write

(* Program constants *)

max_retries == 3    \* const auto max_retries = 3;

Platforms == {"posix", "windows"}
Paths == {"consolidated.bin", "vectorized.bin"}
Errs == {"EACCES", "ENOSPC"}        \* what get_last_error_as_string() may return

Slots == 1..MaxSinks
Addrs == 1..MaxSinks                \* heap cells that hold a descriptor
Fds == 1..MaxSinks                  \* descriptor values the OS hands out
Closed == "closed"
nullptr == 0
Indeterminate == -1                 \* the value of handle_ before init_handle sets it
INVALID == -1                       \* a failed open() / INVALID_HANDLE_VALUE

Max(a, b) == IF a >= b THEN a ELSE b
Min(a, b) == IF a <= b THEN a ELSE b

\* The buffer of length n with bytes base+1 .. base+n (distinct, so that a byte in
\* the file identifies the buffer position it came from).
Buffer(n, base) == [i \in 1..n |-> base + i]
Buffers == {Buffer(n, 0) : n \in 0..MaxLen}
Offsets == 0..MaxOffset
\* The buffers written where only the life of the sinks is of interest.
SinkBuffers == {Buffer(0, 0), Buffer(1, 0)}

NoFile == [exists |-> FALSE, bytes |-> <<>>]

----------------------------------------------------------------------------
(* The operating system *)

\* open(2) returns the lowest descriptor not in use.
FreeFds(t) == {f \in Fds : t[f] = Closed}
LowestFree(S) == CHOOSE x \in S : \A y \in S : x <= y

\* operator new: some cell that is not allocated.
FreeAddrs(h) == {a \in Addrs : ~h[a].alloc}

\* The bytes of a file after the OS has transferred n bytes of buf, starting at
\* buf[cur] (0-based), to file offset off. A hole is read back as zero bytes.
PWriteBytes(bytes, buf, cur, n, off) ==
    IF n = 0 THEN bytes
    ELSE [i \in 1..Max(Len(bytes), off + n) |->
            IF i > off /\ i <= off + n THEN buf[cur + (i - off)]
            ELSE IF i <= Len(bytes) THEN bytes[i]
            ELSE 0]

\* A faulty open: O_TRUNC / CREATE_ALWAYS, the file is emptied.
OpenTruncates(fs, path) ==
    [fs EXCEPT ![path] = [exists |-> TRUE, bytes |-> <<>>]]

\* O_CREAT without O_TRUNC / OPEN_ALWAYS: create when absent, keep when present.
OpenCreate(fs, path) ==
    IF fs[path].exists THEN fs
    ELSE [fs EXCEPT ![path] = [exists |-> TRUE, bytes |-> <<>>]]

----------------------------------------------------------------------------
(* The platform handle layer: init_handle *)

\* What open(2) / CreateFileA returns: a descriptor, or INVALID. osok is the OS's
\* verdict on the path (permissions, space, ...). CreateFileA is called with share
\* mode 0, so on Windows a path that is already open cannot be opened again.
OsOpen(pf, t, path, osok) ==
    IF /\ osok
       /\ FreeFds(t) # {}
       /\ (pf = "windows" => \A f \in Fds : t[f] # path)
    THEN LowestFree(FreeFds(t))
    ELSE INVALID

\* A faulty init_handle: the failure path throws without `delete fd`.
InitHandleLeaksOnFailure(pf, slot, h, t, fs, path, osok, err) ==
    LET a == LowestFree(FreeAddrs(h))
        v == OsOpen(pf, t, path, osok)
    IN  IF FreeAddrs(h) = {}
        THEN [slot |-> slot, heap |-> h, fds |-> t, files |-> fs,
              raised |-> TRUE, oserr |-> "", msg |-> <<"std::bad_alloc">>]
        ELSE IF v = INVALID
        THEN [slot |-> slot,
              heap |-> [h EXCEPT ![a] = [alloc |-> TRUE, val |-> v]],
              fds |-> t, files |-> fs, raised |-> TRUE, oserr |-> err,
              msg |-> <<"Failed to open file: '", path, "': ", err>>]
        ELSE [slot |-> a,
              heap |-> [h EXCEPT ![a] = [alloc |-> TRUE, val |-> v]],
              fds |-> [t EXCEPT ![v] = path],
              files |-> OpenCreate(fs, path),
              raised |-> FALSE, oserr |-> "", msg |-> <<>>]

\* init_handle(&slot, path). The result: the slot, the heap, the descriptor table
\* and the file system afterwards, whether it threw (and what), and the error the
\* OS reported for the open. The heap of the model is finite: with no cell left
\* operator new throws std::bad_alloc.
InitHandle(pf, slot, h, t, fs, path, osok, err) ==
    LET a == LowestFree(FreeAddrs(h))           \* auto *fd = new int;
        v == OsOpen(pf, t, path, osok)          \* *fd = open(...);
    IN  IF FreeAddrs(h) = {}                    \* operator new throws
        THEN [slot |-> slot, heap |-> h, fds |-> t, files |-> fs,
              raised |-> TRUE, oserr |-> "", msg |-> <<"std::bad_alloc">>]
        ELSE IF v = INVALID
        THEN [slot |-> slot, heap |-> h, fds |-> t, files |-> fs,   \* delete fd;
              raised |-> TRUE, oserr |-> err,
              msg |-> <<"Failed to open file: '", path, "': ", err>>]
        ELSE [slot |-> a,                                           \* *handle = fd;
              heap |-> [h EXCEPT ![a] = [alloc |-> TRUE, val |-> v]],
              fds |-> [t EXCEPT ![v] = path],
              files |-> OpenCreate(fs, path),
              raised |-> FALSE, oserr |-> "", msg |-> <<>>]

----------------------------------------------------------------------------
(* The platform handle layer: seek_and_write *)

DWordBits == 32     \* DWORD is an unsigned 32-bit integer
\* static_cast<DWORD>(n), where n counts blocks of 2^shift bytes: the count modulo
\* 2^32 bytes, which is 2^(32 - shift) blocks. Every integer the model can hold is
\* below 2^31, so a count of bytes (shift = 0) is not changed by the cast.
ToDWORD(n, shift) ==
    IF DWordBits - shift >= 31 THEN n ELSE n % (2 ^ (DWordBits - shift))

\* The number of bytes (blocks) the next OS write call is asked to transfer.
Remaining(pf, c) ==
    IF pf = "windows" THEN ToDWORD(c.end - c.cur, c.shift)  \* may truncate
    ELSE c.end - c.cur

\* while (cur < end && retries < max_retries)
LoopGuard(c) == c.cur < c.end /\ c.retries < max_retries

\* A faulty return value: the comparison is off by one.
ReturnValueOffByOne(c) == c.retries <= max_retries

\* return (retries < max_retries);
ReturnValue(c) == c.retries < max_retries

\* A faulty bookkeeping: every OS call counts against the retry budget.
AdvanceCountsEveryCall(c, written) ==
    [c EXCEPT !.retries = c.retries + 1,
              !.offset = c.offset + written,
              !.cur = c.cur + written]

\* A faulty bookkeeping: the file offset is not advanced.
AdvanceKeepsOffset(c, written) ==
    [c EXCEPT !.retries = c.retries + (IF written = 0 THEN 1 ELSE 0),
              !.cur = c.cur + written]

\* A faulty bookkeeping: a zero-byte result is not counted.
AdvanceForgivesZero(c, written) ==
    [c EXCEPT !.offset = c.offset + written,
              !.cur = c.cur + written]

\* retries += (written == 0) ? 1 : 0; offset += written; cur += written;
Advance(c, written) ==
    [c EXCEPT !.retries = c.retries + (IF written = 0 THEN 1 ELSE 0),
              !.offset = c.offset + written,
              !.cur = c.cur + written]

\* One iteration of the POSIX loop; written is what pwrite returned.
PosixIter(c, written, err) ==
    IF written < 0
    THEN [c EXCEPT !.status = "raised",
                   !.msg = <<"Failed to write to file: ", err>>]
    ELSE Advance(c, written)

\* One iteration of the Windows loop; written is the count GetOverlappedResult
\* stored, -1 stands for WriteFile failing with an error other than
\* ERROR_IO_PENDING and -2 for GetOverlappedResult failing. Both log to std::cerr,
\* close the event and return false.
WinIter(c, written, err) ==
    IF written < 0
    THEN [c EXCEPT !.status = "false", !.event = FALSE,
                   !.msg = <<IF written = -1 THEN "Failed to write to file: "
                             ELSE "Failed to get overlapped result: ", err>>]
    ELSE Advance(c, written)

\* Leave the loop when its guard fails: CloseHandle(overlapped.hEvent) on Windows,
\* and the function's return value.
ExitLoop(c) ==
    IF c.status = "loop" /\ ~LoopGuard(c)
    THEN [c EXCEPT !.status = IF ReturnValue(c) THEN "true" ELSE "false",
                   !.event = FALSE]
    ELSE c

SeekAndWriteIter(pf, c, written, err) ==
    ExitLoop(IF pf = "posix" THEN PosixIter(c, written, err)
             ELSE WinIter(c, written, err))

\* The record of a call that has not made an OS call yet. cur and end count from
\* data.data(); size is data.size() and data the bytes, where the model spells
\* them out (it does not for the buffers of the benchmark, of 64 MiB and more).
\* event: the Windows event object is open. shift: offsets and sizes count blocks
\* of 2^shift bytes (bytes, unless a call says otherwise). The fields from offset0 on are history, kept for the
\* properties: the OS write calls made, the bytes the OS transferred, the zero-byte
\* results (in all, in the current run, in the longest run), whether the OS
\* reported a hard failure, whether a call went to a released handle, and the file
\* system when the call began.
NewCall(s, offset, size, data, fs) ==
    [status |-> "loop", sink |-> s, data |-> data, offset |-> offset, cur |-> 0,
     end |-> size, retries |-> 0, event |-> FALSE, msg |-> <<>>, shift |-> 0,
     offset0 |-> offset, ncalls |-> 0, moved |-> 0, zeros |-> 0, zrun |-> 0,
     maxzrun |-> 0, hard |-> FALSE, stale |-> FALSE, pre |-> fs]

\* seek_and_write up to its first test of the loop guard.
SeekAndWriteEnter(pf, s, offset, size, data, fs) ==
    ExitLoop([NewCall(s, offset, size, data, fs) EXCEPT !.event = (pf = "windows")])

\* A faulty FileSink::write: an empty buffer is reported as a failed write.
FileSinkWriteRejectsEmpty(pf, s, offset, size, data, fs) ==
    IF size = 0
    THEN [NewCall(s, offset, size, data, fs) EXCEPT !.status = "false"]
    ELSE SeekAndWriteEnter(pf, s, offset, size, data, fs)

\* FileSink::write up to the first OS call (or to its return).
FileSinkWrite(pf, s, offset, size, data, fs) ==
    IF size = 0                         \* data.data() == nullptr || data.empty()
    THEN [NewCall(s, offset, size, data, fs) EXCEPT !.status = "true"]
    ELSE SeekAndWriteEnter(pf, s, offset, size, data, fs)

\* The history of a call after the OS answered written to one more write call.
History(c, d, written) ==
    [d EXCEPT !.ncalls = c.ncalls + 1,
              !.moved = c.moved + Max(written, 0),
              !.zeros = c.zeros + (IF written = 0 THEN 1 ELSE 0),
              !.zrun = IF written = 0 THEN c.zrun + 1 ELSE 0,
              !.maxzrun = IF written = 0 THEN Max(c.maxzrun, c.zrun + 1)
                          ELSE c.maxzrun,
              !.hard = c.hard \/ written < 0]

\* What reading *fd yields: the cell's value, or anything if the cell was freed.
Deref(h, a) ==
    IF a \in Addrs /\ h[a].alloc THEN {h[a].val} ELSE Fds \cup {INVALID}

IsOpen(t, v) == v \in Fds /\ t[v] # Closed

\* The OS write call may answer w when asked for rem bytes on descriptor v: a
\* count up to rem, or a failure (-1, and on Windows -2, see WinIter).
OsMayAnswer(pf, t, v, rem, w) ==
    \/ IsOpen(t, v) /\ 0 <= w /\ w <= rem
    \/ w = -1
    \/ pf = "windows" /\ IsOpen(t, v) /\ w = -2

\* The file system after the OS has transferred written bytes (the bytes of the
\* file are followed where the bytes of the buffer are spelled out).
FilesAfterWrite(fs, t, v, c, written) ==
    IF written > 0 /\ IsOpen(t, v) /\ Len(c.data) = c.end
    THEN [fs EXCEPT ![t[v]].bytes =
            PWriteBytes(fs[t[v]].bytes, c.data, c.cur, written, c.offset)]
    ELSE fs

----------------------------------------------------------------------------
(* The platform handle layer: destroy_handle *)

\* A faulty destroy_handle: the cell is deleted, the descriptor is not closed.
DestroyHandleNoClose(pf, slot, h, t, v) ==
    IF slot = nullptr
    THEN [heap |-> h, fds |-> t, os |-> <<>>, stale |-> FALSE]
    ELSE [heap |-> [h EXCEPT ![slot] = [alloc |-> FALSE, val |-> INVALID]],
          fds |-> t,
          os |-> << <<"delete", slot>> >>,
          stale |-> ~h[slot].alloc]

\* destroy_handle(&slot), v being the value read from *fd. The result: the heap and
\* the descriptor table afterwards, the OS calls issued, in order, and whether one
\* of them was issued on a descriptor or a cell that had been released before.
DestroyHandle(pf, slot, h, t, v) ==
    IF slot = nullptr                                           \* if (fd)
    THEN [heap |-> h, fds |-> t, os |-> <<>>, stale |-> FALSE]
    ELSE LET valid == v # INVALID           \* *fd >= 0, *fd != INVALID_HANDLE_VALUE
             flush == IF valid /\ pf = "windows"
                      THEN << <<"FlushFileBuffers", v>> >> ELSE <<>>
             close == IF valid THEN << <<"close", v>> >> ELSE <<>>
         IN  [heap |-> [h EXCEPT ![slot] = [alloc |-> FALSE, val |-> INVALID]],
              fds |-> IF valid /\ IsOpen(t, v) THEN [t EXCEPT ![v] = Closed] ELSE t,
              os |-> flush \o close \o << <<"delete", slot>> >>,
              stale |-> (valid /\ ~IsOpen(t, v)) \/ ~h[slot].alloc]

----------------------------------------------------------------------------
(* The vectored sink: VectorizedFileWriter::write_vectors *)

IOV_MAX == 1024     \* the most buffers one gather call takes

\* sizes[lo] + ... + sizes[hi]: the cardinality of the bag that holds index k
\* sizes[k] + 1 times, less one copy of each index.
SumRange(sizes, lo, hi) ==
    IF lo > hi THEN 0
    ELSE BagCardinality([k \in lo..hi |-> sizes[k] + 1]) - (hi - lo + 1)

\* The sum of sizes[i], sizes[i+1], ...
SumFrom(sizes, i) == SumRange(sizes, i, Len(sizes))

Sizes(chunks) == [i \in DOMAIN chunks |-> Len(chunks[i])]

\* The record of a write_vectors call that has not made an OS call yet: done, the
\* buffers flushed in full; part, the bytes flushed of the first buffer that is
\* not; left, the bytes not flushed yet; offset, the file offset of the next gather
\* call; retries, the zero-progress attempts in a row. ncalls is history.
NewVCall(s, offset, sizes) ==
    [status |-> "loop", sink |-> s, sizes |-> sizes, done |-> 0, part |-> 0,
     left |-> SumFrom(sizes, 1), offset |-> offset, retries |-> 0, msg |-> <<>>,
     offset0 |-> offset, ncalls |-> 0]

IdleVCall == [NewVCall(0, 0, <<>>) EXCEPT !.status = "idle"]

\* The bytes not flushed yet.
VecLeft(c) == c.left

\* The last buffer of the group the next gather call covers.
GroupEnd(c) == Min(Len(c.sizes), c.done + IOV_MAX)

\* The bytes the next gather call is asked to transfer.
VecRequested(c) ==
    IF GroupEnd(c) = Len(c.sizes) THEN VecLeft(c)
    ELSE SumRange(c.sizes, c.done + 1, GroupEnd(c)) - c.part

RECURSIVE VecDrop(_, _, _, _)
\* A faulty bookkeeping: the bytes flushed of a buffer flushed in part are not
\* noted, the buffer is sent again whole.
VecDropForgetsPart(sizes, done, part, written) ==
    IF done >= Len(sizes) THEN [done |-> done, part |-> 0]
    ELSE IF written >= sizes[done + 1] - part
         THEN VecDrop(sizes, done + 1, 0, written - (sizes[done + 1] - part))
         ELSE [done |-> done, part |-> part]

\* Drop the buffers flushed in full by written more bytes, cut the first one that
\* is not down to its unwritten tail.
VecDrop(sizes, done, part, written) ==
    IF done >= Len(sizes) THEN [done |-> done, part |-> 0]
    ELSE IF written >= sizes[done + 1] - part
         THEN VecDrop(sizes, done + 1, 0, written - (sizes[done + 1] - part))
         ELSE [done |-> done, part |-> part + written]

\* The bookkeeping after written more bytes, left being the bytes not flushed
\* before (when all of them are flushed now, so is every buffer).
VecAdvance(sizes, done, part, left, written) ==
    IF written = left THEN [done |-> Len(sizes), part |-> 0]
    ELSE VecDrop(sizes, done, part, written)

VecExitLoop(c) ==
    IF c.status # "loop" THEN c
    ELSE IF VecLeft(c) = 0 THEN [c EXCEPT !.status = "true"]
    ELSE IF c.retries >= max_retries THEN [c EXCEPT !.status = "false"]
    ELSE c

\* One gather call and the bookkeeping after it; written < 0 is a hard failure.
VecIter(c, written, err) ==
    IF written < 0
    THEN [c EXCEPT !.status = "raised", !.ncalls = c.ncalls + 1,
                   !.msg = <<"Failed to write to file: ", err>>]
    ELSE LET a == VecAdvance(c.sizes, c.done, c.part, c.left, written)
         IN  VecExitLoop([c EXCEPT !.done = a.done, !.part = a.part,
                                   !.left = c.left - written,
                                   !.offset = c.offset + written,
                                   !.retries = IF written = 0 THEN c.retries + 1
                                               ELSE 0,
                                   !.ncalls = c.ncalls + 1])

\* write_vectors(chunks, offset) up to its first gather call.
WriteVectors(s, offset, sizes) == VecExitLoop(NewVCall(s, offset, sizes))

RECURSIVE Concat(_, _)
\* chunks[i] \o chunks[i+1] \o ...
Concat(chunks, i) ==
    IF i > Len(chunks) THEN <<>> ELSE chunks[i] \o Concat(chunks, i + 1)

\* The bytes the buffer list of the next gather call points at.
IovBytes(chunks, c) ==
    LET group == SubSeq(chunks, 1, GroupEnd(c))
    IN  IF c.done >= Len(group) THEN <<>>
        ELSE SubSeq(group[c.done + 1], c.part + 1, Len(group[c.done + 1]))
                 \o Concat(group, c.done + 2)

----------------------------------------------------------------------------
(* The state after start-up *)

Preexisting == [exists |-> TRUE, bytes |-> <<9, 9, 9, 9, 9>>]

IdleCall == [NewCall(0, 0, 0, <<>>, <<>>) EXCEPT !.status = "idle"]

\* again: destroy_handle was called on a slot that held no handle, or one it had
\* released before.
NoLast == [op |-> "none", sink |-> 0, path |-> "", raised |-> FALSE, msg |-> <<>>,
           oserr |-> "", slot |-> Indeterminate, os |-> <<>>, stale |-> FALSE,
           after |-> "idle", fd |-> INVALID, again |-> FALSE]

NoSink == [live |-> FALSE, handle_ |-> Indeterminate]

\* The calling program: where it stands (pc), the chunk set it writes (nchunks,
\* sizes, and chunks where the bytes are spelled out) and the offset, what the two
\* write calls returned and whether they made one OS call or more, and the
\* benchmark's record: the chunk counts attempted, whether a failure was logged to
\* std::cerr and the bytes_written of the last row. threads: where the program
\* shares one sink among threads, the FileSink::write call of each thread.
NoProg == [pc |-> "none", nchunks |-> 0, sizes |-> <<>>, chunks |-> <<>>,
           offset |-> 0, cret |-> "none", vret |-> "none", ccalls |-> 0,
           vcalls |-> 0, tried |-> <<>>, cerr |-> FALSE, row |-> 0,
           threads |-> <<>>]

Init ==
    /\ platform \in Platforms
    /\ files \in [Paths -> {NoFile, Preexisting}]
    /\ fds = [f \in Fds |-> Closed]
    /\ heap = [a \in Addrs |-> [alloc |-> FALSE, val |-> INVALID]]
    /\ sinks = [s \in Slots |-> NoSink]
    /\ call = IdleCall
    /\ vcall = IdleVCall
    /\ last = NoLast
    /\ prog = NoProg

----------------------------------------------------------------------------
(* zarr::FileSink *)

Busy == call.status = "loop"

\* FileSink::FileSink(filename): init_handle(&handle_, filename). When it throws
\* no object comes into being.
ConstructOp(s, path, osok, err) ==
    /\ ~Busy
    /\ ~sinks[s].live
    /\ \A r \in Slots : r < s => sinks[r].live
    /\ LET r == InitHandle(platform, Indeterminate, heap, fds, files, path, osok, err)
       IN  /\ heap' = r.heap
           /\ fds' = r.fds
           /\ files' = r.files
           /\ sinks' = IF r.raised THEN sinks
                       ELSE [sinks EXCEPT ![s] = [live |-> TRUE, handle_ |-> r.slot]]
           /\ last' = [NoLast EXCEPT !.op = "construct", !.sink = s, !.path = path,
                                     !.raised = r.raised, !.msg = r.msg,
                                     !.oserr = r.oserr,
                                     !.slot = r.slot,
                                     !.fd = IF r.raised THEN INVALID
                                            ELSE r.heap[r.slot].val]
    /\ UNCHANGED <<platform, call>>

Construct(s, path, osok, err) ==
    ConstructOp(s, path, osok, err) /\ UNCHANGED <<vcall, prog>>

\* FileSink::write(offset, data), up to its first OS write call.
BeginWriteOp(s, offset, size, data) ==
    /\ ~Busy
    /\ sinks[s].live
    /\ call' = FileSinkWrite(platform, s, offset, size, data, files)
    /\ UNCHANGED <<platform, files, fds, heap, sinks, last>>

BeginWrite(s, offset, data) ==
    BeginWriteOp(s, offset, Len(data), data) /\ UNCHANGED <<vcall, prog>>

\* One iteration of the loop of seek_and_write: the OS write call and what follows.
\* results: the answers of the OS that are considered.
OsWriteOp(results) ==
    /\ Busy
    /\ \E v \in Deref(heap, sinks[call.sink].handle_) :
       \E written \in {w \in results :
                OsMayAnswer(platform, fds, v, Remaining(platform, call), w)} :
       \E err \in (IF written < 0 THEN Errs ELSE {"EACCES"}) :
          /\ files' = FilesAfterWrite(files, fds, v, call, written)
          /\ call' = [History(call, SeekAndWriteIter(platform, call, written, err),
                               written)
                          EXCEPT !.stale = \/ call.stale
                                           \/ ~heap[sinks[call.sink].handle_].alloc
                                           \/ ~IsOpen(fds, v)]
    /\ UNCHANGED <<platform, fds, heap, sinks, last>>

\* Every answer the OS may give to a call of the model's small buffers.
AnyResult == -2 .. Max(call.end, VecLeft(vcall))

OsWrite == OsWriteOp(AnyResult) /\ UNCHANGED <<vcall, prog>>

\* FileSink::~FileSink(): destroy_handle(&handle_).
DestroyOp(s) ==
    /\ ~Busy
    /\ sinks[s].live
    /\ \E v \in Deref(heap, sinks[s].handle_) :
         LET r == DestroyHandle(platform, sinks[s].handle_, heap, fds, v)
         IN  /\ heap' = r.heap
             /\ fds' = r.fds
             /\ last' = [NoLast EXCEPT !.op = "destroy", !.sink = s,
                                       !.slot = sinks[s].handle_, !.os = r.os,
                                       !.stale = r.stale, !.fd = v,
                                       !.after = IF call.sink = s THEN call.status
                                                 ELSE "idle"]
    /\ sinks' = [sinks EXCEPT ![s] = NoSink]
    /\ UNCHANGED <<platform, files>>

Destroy(s) == DestroyOp(s) /\ UNCHANGED <<call, vcall, prog>>

Next ==
    \/ \E s \in Slots, path \in Paths, osok \in BOOLEAN, err \in Errs :
          Construct(s, path, osok, err)
    \/ \E s \in Slots, data \in SinkBuffers : BeginWrite(s, 0, data)
    \/ OsWrite
    \/ \E s \in Slots : Destroy(s)

\* Any number of sinks, constructed, written to and destroyed in any order.
Spec == Init /\ [][Next]_vars

----------------------------------------------------------------------------
(* Copies of a sink *)

\* FileSink t(s): the implicitly declared copy constructor copies handle_.
Copy(s, t) ==
    /\ ~Busy
    /\ sinks[s].live
    /\ ~sinks[t].live
    /\ \A r \in Slots : r < t => sinks[r].live
    /\ sinks' = [sinks EXCEPT ![t] = sinks[s]]
    /\ UNCHANGED <<platform, files, fds, heap, call, vcall, last, prog>>

\* t = s: the implicitly declared copy assignment overwrites handle_.
CopyAssign(s, t) ==
    /\ ~Busy
    /\ s # t
    /\ sinks[s].live
    /\ sinks[t].live
    /\ sinks' = [sinks EXCEPT ![t] = sinks[s]]
    /\ UNCHANGED <<platform, files, fds, heap, call, vcall, last, prog>>

InitCopy ==
    /\ Init
    /\ files = [p \in Paths |-> NoFile]

NextCopy ==
    \/ \E s \in Slots, path \in Paths, osok \in BOOLEAN :
          Construct(s, path, osok, "EACCES")
    \/ \E s \in Slots : BeginWrite(s, 0, Buffer(1, 0))
    \/ OsWrite
    \/ \E s \in Slots : Destroy(s)
    \/ \E s, t \in Slots : Copy(s, t)
    \/ \E s, t \in Slots : CopyAssign(s, t)

\* Everything the class as declared lets a caller do with its objects.
SpecCopy == InitCopy /\ [][NextCopy]_vars

----------------------------------------------------------------------------
(* One call of FileSink::write, on every input *)

\* A sink has been constructed on some path; nothing has been written through it.
InitWrite ==
    \E pf \in Platforms, fs \in [Paths -> {NoFile, Preexisting}], path \in Paths :
        LET r == InitHandle(pf, Indeterminate, [a \in Addrs |-> [alloc |-> FALSE, val |-> INVALID]],
                            [f \in Fds |-> Closed], fs, path, TRUE, "EACCES")
        IN  /\ platform = pf
            /\ files = r.files
            /\ fds = r.fds
            /\ heap = r.heap
            /\ sinks = [s \in Slots |-> IF s = 1 THEN [live |-> TRUE, handle_ |-> r.slot]
                                        ELSE NoSink]
            /\ call = IdleCall
            /\ vcall = IdleVCall
            /\ last = [NoLast EXCEPT !.op = "construct", !.sink = 1, !.path = path,
                                      !.slot = r.slot, !.fd = r.heap[r.slot].val]
            /\ prog = NoProg

FirstWrite(offset, data) ==
    /\ call.status = "idle"
    /\ BeginWrite(1, offset, data)

NextWrite ==
    \/ \E offset \in Offsets, data \in Buffers : FirstWrite(offset, data)
    \/ OsWrite

SpecWrite == InitWrite /\ [][NextWrite]_vars

\* Every OS write call returns, and the loop then takes its next step.
FairWrite == SpecWrite /\ WF_vars(OsWrite)

----------------------------------------------------------------------------
(* kernel: consolidate_and_write, then write_vectorized *)

RECURSIVE ConsolidateLoop(_, _, _, _)
\* A faulty copy loop: shard_size is not advanced, every chunk lands at 0.
ConsolidateLoopNoAdvance(data, i, shard, shard_size) ==
    IF i > Len(data) THEN shard
    ELSE ConsolidateLoop(data, i + 1,
            [k \in DOMAIN shard |->
                IF k <= Len(data[i]) THEN data[i][k] ELSE shard[k]],
            0)

\* for (const auto &d: data) { memcpy(shard.data() + shard_size, d.data(),
\* d.size()); shard_size += d.size(); }
ConsolidateLoop(data, i, shard, shard_size) ==
    IF i > Len(data) THEN shard
    ELSE ConsolidateLoop(data, i + 1,
            [k \in DOMAIN shard |->
                IF k > shard_size /\ k <= shard_size + Len(data[i])
                THEN data[i][k - shard_size] ELSE shard[k]],
            shard_size + Len(data[i]))

\* The shard consolidate_and_write builds: a vector of the summed size, filled.
Consolidate(data) ==
    ConsolidateLoop(data, 1, [k \in 1..SumFrom(Sizes(data), 1) |-> 0], 0)

\* The chunks are spelled out (they are not in the benchmark, see NewCall).
Enumerated(p) == Len(p.chunks) = Len(p.sizes)

Shard(p) == IF Enumerated(p) THEN Consolidate(p.chunks) ELSE <<>>

\* zarr::FileSink filesink(path);
KOpenC(osok, err) ==
    /\ prog.pc = "consolidate"
    /\ ConstructOp(1, "consolidated.bin", osok, err)
    /\ prog' = [prog EXCEPT !.pc = IF last'.raised THEN "raised" ELSE "cwrite"]
    /\ UNCHANGED vcall

\* filesink.write(offset, shard); (the result is dropped)
KWriteC ==
    /\ prog.pc = "cwrite"
    /\ BeginWriteOp(1, prog.offset, SumFrom(prog.sizes, 1), Shard(prog))
    /\ prog' = [prog EXCEPT !.pc = IF call'.status = "loop" THEN "cloop"
                                   ELSE "cclose"]
    /\ UNCHANGED vcall

KOsWriteC(results) ==
    /\ prog.pc = "cloop"
    /\ OsWriteOp(results)
    /\ prog' = [prog EXCEPT !.pc = IF call'.status = "loop" THEN "cloop"
                                   ELSE "cclose"]
    /\ UNCHANGED vcall

\* ~FileSink at the end of consolidate_and_write, or while its exception unwinds.
KCloseC ==
    /\ prog.pc = "cclose"
    /\ DestroyOp(1)
    /\ prog' = [prog EXCEPT !.cret = call.status,
                            !.ccalls = Min(call.ncalls, 2),
                            !.pc = IF call.status = "raised" THEN "raised"
                                   ELSE "vectorize"]
    /\ call' = IdleCall
    /\ UNCHANGED vcall

\* zarr::VectorizedFileWriter vfw(path);
KOpenV(osok, err) ==
    /\ prog.pc = "vectorize"
    /\ ConstructOp(1, "vectorized.bin", osok, err)
    /\ prog' = [prog EXCEPT !.pc = IF last'.raised THEN "raised" ELSE "vwrite"]
    /\ UNCHANGED vcall

\* vfw.write_vectors(data, offset); (the result is dropped)
KWriteV ==
    /\ prog.pc = "vwrite"
    /\ vcall' = WriteVectors(1, prog.offset, prog.sizes)
    /\ prog' = [prog EXCEPT !.pc = IF vcall'.status = "loop" THEN "vloop"
                                   ELSE "vclose"]
    /\ UNCHANGED <<platform, files, fds, heap, sinks, call, last>>

\* One gather call of write_vectors and the bookkeeping after it.
KOsWritev(results) ==
    /\ prog.pc = "vloop"
    /\ \E v \in Deref(heap, sinks[vcall.sink].handle_) :
       \E written \in {w \in results :
                OsMayAnswer("posix", fds, v, VecRequested(vcall), w)} :
       \E err \in (IF written < 0 THEN Errs ELSE {"EACCES"}) :
          /\ files' = IF written > 0 /\ Enumerated(prog)
                      THEN [files EXCEPT ![fds[v]].bytes =
                              PWriteBytes(files[fds[v]].bytes,
                                          IovBytes(prog.chunks, vcall), 0, written,
                                          vcall.offset)]
                      ELSE files
          /\ vcall' = VecIter(vcall, written, err)
    /\ prog' = [prog EXCEPT !.pc = IF vcall'.status = "loop" THEN "vloop"
                                   ELSE "vclose"]
    /\ UNCHANGED <<platform, fds, heap, sinks, call, last>>

\* ~VectorizedFileWriter at the end of write_vectorized, or while its exception
\* unwinds.
KCloseV ==
    /\ prog.pc = "vclose"
    /\ DestroyOp(1)
    /\ prog' = [prog EXCEPT !.vret = vcall.status,
                            !.vcalls = Min(vcall.ncalls, 2),
                            !.pc = IF vcall.status = "raised" THEN "raised"
                                   ELSE "return"]
    /\ vcall' = IdleVCall
    /\ UNCHANGED call

----------------------------------------------------------------------------
(* kernel on every small chunk set: both sinks write the same chunk set at the  *)
(* same offset into files that start out alike                                  *)

MaxChunks == 2      \* most chunks in a chunk set
MaxChunkLen == 2    \* longest chunk

\* Chunk i holds the bytes 10*i + 1, 10*i + 2, ...
ChunkSets ==
    UNION {{[i \in 1..k |-> Buffer(lens[i], 10 * i)] :
                lens \in [1..k -> 0..MaxChunkLen]} : k \in 0..MaxChunks}

InitEquiv ==
    /\ platform \in Platforms
    /\ \E f \in {NoFile, Preexisting} : files = [p \in Paths |-> f]
    /\ fds = [f \in Fds |-> Closed]
    /\ heap = [a \in Addrs |-> [alloc |-> FALSE, val |-> INVALID]]
    /\ sinks = [s \in Slots |-> NoSink]
    /\ call = IdleCall
    /\ vcall = IdleVCall
    /\ last = NoLast
    /\ \E cs \in ChunkSets, offset \in Offsets :
          prog = [NoProg EXCEPT !.pc = "consolidate", !.nchunks = Len(cs),
                                !.sizes = Sizes(cs), !.chunks = cs,
                                !.offset = offset]

NextEquiv ==
    \/ \E osok \in BOOLEAN : KOpenC(osok, "EACCES")
    \/ KWriteC
    \/ KOsWriteC(AnyResult)
    \/ KCloseC
    \/ \E osok \in BOOLEAN : KOpenV(osok, "EACCES")
    \/ KWriteV
    \/ KOsWritev(AnyResult)
    \/ KCloseV

SpecEquiv == InitEquiv /\ [][NextEquiv]_vars

----------------------------------------------------------------------------
(* main: the benchmark driver *)

bytes_per_chunk == 128 * 128 * 128
FirstChunks == 32   \* for (auto nchunks = 32;
ChunkLimit == 1024  \*      nchunks < 1024;
ChunkStep == 32     \*      nchunks += 32)

\* make_data(nchunks, bytes_per_chunk): nchunks vectors of bytes_per_chunk bytes.
MakeData(nchunks) == [i \in 1..nchunks |-> bytes_per_chunk]

InitDriver ==
    /\ platform \in Platforms
    /\ files \in {[p \in Paths |-> NoFile], [p \in Paths |-> Preexisting]}
    /\ fds = [f \in Fds |-> Closed]
    /\ heap = [a \in Addrs |-> [alloc |-> FALSE, val |-> INVALID]]
    /\ sinks = [s \in Slots |-> NoSink]
    /\ call = IdleCall
    /\ vcall = IdleVCall
    /\ last = NoLast
    /\ prog = [NoProg EXCEPT !.pc = "for", !.nchunks = FirstChunks]

\* The loop test; when it holds, the try block is entered and kernel is called:
\* make_data, which throws std::bad_alloc when memory runs out (allocated says
\* whether it does not).
DrvFor(allocated) ==
    /\ prog.pc = "for"
    /\ prog' = IF prog.nchunks < ChunkLimit
               THEN [prog EXCEPT !.pc = IF allocated THEN "consolidate" ELSE "raised",
                                 !.sizes = IF allocated THEN MakeData(prog.nchunks)
                                           ELSE <<>>,
                                 !.cret = "none", !.vret = "none",
                                 !.ccalls = 0, !.vcalls = 0,
                                 !.tried = Append(prog.tried, prog.nchunks)]
               ELSE [prog EXCEPT !.pc = "done"]
    /\ UNCHANGED <<platform, files, fds, heap, sinks, call, vcall, last>>

\* A faulty handler: the run is given up at the first failure.
DrvCatchAborts ==
    /\ prog.pc = "raised"
    /\ prog' = [prog EXCEPT !.pc = "done", !.cerr = TRUE]
    /\ UNCHANGED <<platform, files, fds, heap, sinks, call, vcall, last>>

\* catch (const std::exception &exc) { std::cerr << ...; continue; }
DrvCatch ==
    /\ prog.pc = "raised"
    /\ prog' = [prog EXCEPT !.pc = "for", !.cerr = TRUE,
                            !.nchunks = prog.nchunks + ChunkStep]
    /\ UNCHANGED <<platform, files, fds, heap, sinks, call, vcall, last>>

\* kernel returned: the row goes to std::cout and to results.csv.
DrvEmit ==
    /\ prog.pc = "return"
    /\ prog' = [prog EXCEPT !.pc = "cleanup",
                            !.row = prog.nchunks * bytes_per_chunk]
    /\ UNCHANGED <<platform, files, fds, heap, sinks, call, vcall, last>>

\* if (fs::exists(...)) fs::remove(...); for both files, and the loop's step.
DrvCleanup ==
    /\ prog.pc = "cleanup"
    /\ files' = [p \in Paths |-> NoFile]
    /\ prog' = [prog EXCEPT !.pc = "for", !.nchunks = prog.nchunks + ChunkStep]
    /\ UNCHANGED <<platform, fds, heap, sinks, call, vcall, last>>

\* What the OS answers in the benchmark: a failure, nothing, or all it is asked.
DrvResults == {-2, -1, 0, call.end - call.cur, VecLeft(vcall)}

NextDriver ==
    \/ \E allocated \in BOOLEAN : DrvFor(allocated)
    \/ \E osok \in BOOLEAN : KOpenC(osok, "EACCES")
    \/ KWriteC
    \/ KOsWriteC(DrvResults)
    \/ KCloseC
    \/ \E osok \in BOOLEAN : KOpenV(osok, "EACCES")
    \/ KWriteV
    \/ KOsWritev(DrvResults)
    \/ KCloseV
    \/ DrvCatch
    \/ DrvEmit
    \/ DrvCleanup

SpecDriver == InitDriver /\ [][NextDriver]_vars

\* The program is sequential and every OS call returns: it takes its next step.
FairDriver == SpecDriver /\ WF_vars(NextDriver)

----------------------------------------------------------------------------
(* A sink opened on a file, present or not, and one call of FileSink::write *)

FrameWrite(offset, data) ==
    /\ call.status = "idle"
    /\ BeginWrite(1, offset, data)

NextFrame ==
    \/ \E path \in Paths, osok \in BOOLEAN : Construct(1, path, osok, "EACCES")
    \/ \E offset \in Offsets, data \in Buffers : FrameWrite(offset, data)
    \/ OsWrite

SpecFrame == Init /\ [][NextFrame]_vars

----------------------------------------------------------------------------
(* One call of FileSink::write with a buffer of gigabytes *)

BlockShift == 30    \* the sizes of this section count blocks of 2^30 bytes
MaxBlocks == 5      \* largest buffer, in blocks

\* FileSink::write(0, data) with data of size blocks, up to its first OS write
\* call. The bytes are not spelled out, and the OS transfers whole blocks.
WideWrite(size) ==
    /\ call.status = "idle"
    /\ sinks[1].live
    /\ call' = [FileSinkWrite(platform, 1, 0, size, <<>>, files)
                    EXCEPT !.shift = BlockShift]
    /\ UNCHANGED <<platform, files, fds, heap, sinks, vcall, last, prog>>

NextWide ==
    \/ \E size \in 1..MaxBlocks : WideWrite(size)
    \/ OsWrite

SpecWide == InitWrite /\ [][NextWide]_vars

----------------------------------------------------------------------------
(* The handle layer called directly: init_handle and destroy_handle on slots *)

\* The slots (void *h = nullptr;) of a caller of the handle layer. live: the caller
\* has had init_handle fill the slot and has not called destroy_handle on it since.
InitClose ==
    /\ platform \in Platforms
    /\ files = [p \in Paths |-> NoFile]
    /\ fds = [f \in Fds |-> Closed]
    /\ heap = [a \in Addrs |-> [alloc |-> FALSE, val |-> INVALID]]
    /\ sinks = [s \in Slots |-> [live |-> FALSE, handle_ |-> nullptr]]
    /\ call = IdleCall
    /\ vcall = IdleVCall
    /\ last = NoLast
    /\ prog = NoProg

\* init_handle(&h, path) on a slot that holds no handle of the caller's.
HandleInit(s, path, osok) ==
    /\ ~sinks[s].live
    /\ LET r == InitHandle(platform, sinks[s].handle_, heap, fds, files, path, osok,
                           "EACCES")
       IN  /\ heap' = r.heap
           /\ fds' = r.fds
           /\ files' = r.files
           /\ sinks' = [sinks EXCEPT ![s] = [live |-> ~r.raised, handle_ |-> r.slot]]
           /\ last' = [NoLast EXCEPT !.op = "construct", !.sink = s, !.path = path,
                                     !.raised = r.raised, !.msg = r.msg,
                                     !.oserr = r.oserr, !.slot = r.slot]
    /\ UNCHANGED <<platform, call, vcall, prog>>

\* destroy_handle(&h), on any slot at any time. It never assigns to *handle: the
\* slot keeps the pointer it held.
HandleDestroy(s) ==
    /\ \E v \in Deref(heap, sinks[s].handle_) :
         LET r == DestroyHandle(platform, sinks[s].handle_, heap, fds, v)
         IN  /\ heap' = r.heap
             /\ fds' = r.fds
             /\ last' = [NoLast EXCEPT !.op = "destroy", !.sink = s,
                                       !.slot = sinks[s].handle_, !.os = r.os,
                                       !.stale = r.stale, !.fd = v,
                                       !.again = ~sinks[s].live]
    /\ sinks' = [sinks EXCEPT ![s].live = FALSE]
    /\ UNCHANGED <<platform, files, call, vcall, prog>>

NextClose ==
    \/ \E s \in Slots, path \in Paths, osok \in BOOLEAN : HandleInit(s, path, osok)
    \/ \E s \in Slots : HandleDestroy(s)

SpecClose == InitClose /\ [][NextClose]_vars

----------------------------------------------------------------------------
(* One sink shared by several threads *)

MaxThreads == 2     \* threads that call FileSink::write on the one sink
Threads == 1..MaxThreads

\* The buffers the threads write (at offset 0).
ThreadBuffers == {Buffer(0, 0), Buffer(1, 0), Buffer(2, 0)}

\* Sink 1 has been constructed and handed to the threads, none of which has called
\* write yet.
InitThreads ==
    /\ InitWrite
    /\ files[last.path] = [exists |-> TRUE, bytes |-> <<>>]
    /\ \A p \in Paths \ {last.path} : files[p] = NoFile

\* The call of each thread (none has called write before the first call is made).
ThreadCalls == IF prog.threads = <<>> THEN [u \in Threads |-> IdleCall]
               ELSE prog.threads

\* Thread t calls FileSink::write(0, data) and runs up to its first OS write call.
\* write takes no lock: mutex_ is declared (in one of the two declarations of the
\* class) and never locked, so nothing in the call looks at the other threads.
ThreadBeginWrite(t, data) ==
    /\ prog.pc = "none"
    /\ sinks[1].live
    /\ t \in Threads
    /\ ThreadCalls[t].status = "idle"
    /\ prog' = [prog EXCEPT !.threads =
                  [ThreadCalls EXCEPT ![t] = FileSinkWrite(platform, 1, 0, Len(data),
                                                          data, files)]]
    /\ UNCHANGED <<platform, files, fds, heap, sinks, call, vcall, last>>

\* One iteration of the loop of seek_and_write in thread t.
ThreadOsWrite(t) ==
    /\ LET c == ThreadCalls[t]
       IN  /\ c.status = "loop"
           /\ \E v \in Deref(heap, sinks[c.sink].handle_) :
              \E written \in {w \in -2 .. c.end :
                       OsMayAnswer(platform, fds, v, Remaining(platform, c), w)} :
                 /\ files' = FilesAfterWrite(files, fds, v, c, written)
                 /\ prog' = [prog EXCEPT !.threads =
                               [ThreadCalls EXCEPT ![t] =
                                  History(c, SeekAndWriteIter(platform, c, written,
                                                              "EACCES"), written)]]
    /\ UNCHANGED <<platform, fds, heap, sinks, call, vcall, last>>

NextThreads ==
    \/ \E t \in Threads, data \in ThreadBuffers : ThreadBeginWrite(t, data)
    \/ \E t \in Threads : ThreadOsWrite(t)

SpecThreads == InitThreads /\ [][NextThreads]_vars

----------------------------------------------------------------------------
(* Properties of one call of FileSink::write / seek_and_write (SpecWrite) *)

Returned == call.status \in {"true", "false"}

\* C1: when the OS reports no hard failure, the call returns true if and only if
\* the OS transferred all len(data) bytes, and false if and only if three
\* zero-byte results used up the retry budget before the range was complete.
C1_ReturnIffComplete ==
    (Returned /\ ~call.hard) =>
        /\ (call.status = "true") <=> (call.moved = call.end)
        /\ (call.status = "false") <=>
               (call.zeros >= max_retries /\ call.moved < call.end)

\* C1: a call that made progress and then ran out of retries.
C1_Witness ==
    call.status = "false" /\ ~call.hard /\ call.moved > 0 /\ call.zeros = max_retries

C3_HardFailureRaises == call.hard => call.status = "raised"

\* C4: FileSink::write with an empty buffer returns true without an OS write call,
\* at every offset, and leaves the files and the handle as they were.
C4_EmptyWriteIsNoOp ==
    (call.status # "idle" /\ call.end = 0) =>
        /\ call.status = "true"
        /\ call.ncalls = 0
        /\ files = call.pre
        /\ heap[sinks[call.sink].handle_] = [alloc |-> TRUE, val |-> last.fd]
        /\ fds[last.fd] = last.path

\* C4: an empty write at a non-zero offset into a file that holds data.
C4_Witness ==
    /\ call.status = "true"
    /\ call.end = 0
    /\ call.offset0 = MaxOffset
    /\ files[last.path] = Preexisting

----------------------------------------------------------------------------
(* Properties of the life of the sinks (Spec) *)

Range(q) == {q[i] : i \in DOMAIN q}

\* The live sinks whose handle_ points to a cell holding descriptor f.
Owners(f) ==
    {s \in Slots : /\ sinks[s].live
                   /\ heap[sinks[s].handle_].alloc
                   /\ heap[sinks[s].handle_].val = f}

\* Every open descriptor and every allocated cell belongs to a live sink.
NothingLeaked ==
    /\ \A f \in Fds : IsOpen(fds, f) => Owners(f) # {}
    /\ \A a \in Addrs : heap[a].alloc =>
           \E s \in Slots : sinks[s].live /\ sinks[s].handle_ = a

\* C6: once a sink is destroyed its descriptor has been closed by the destructor,
\* whatever its writes did before; no descriptor, cell or event object outlives
\* the sinks.
C6_DestroyReleasesHandle ==
    /\ NothingLeaked
    /\ last.op = "destroy" =>
           /\ last.fd \in Fds
           /\ ~IsOpen(fds, last.fd)
           /\ <<"close", last.fd>> \in Range(last.os)
    /\ (\A s \in Slots : ~sinks[s].live) =>
           /\ \A f \in Fds : ~IsOpen(fds, f)
           /\ ~call.event

\* C6: a sink destroyed after its write raised, leaving nothing open.
C6_Witness ==
    /\ last.op = "destroy"
    /\ last.after = "raised"
    /\ \A f \in Fds : ~IsOpen(fds, f)

\* C8: when the OS fails to open the file the constructor raises an error that
\* carries the OS error message, no sink comes into being, the handle slot holds no
\* handle, and the descriptor table and the heap hold nothing from the attempt.
C8_OpenFailureLeavesNothing ==
    (last.op = "construct" /\ last.raised /\ last.oserr # "") =>
        /\ last.oserr \in Errs
        /\ last.oserr \in Range(last.msg)
        /\ last.path \in Range(last.msg)
        /\ ~sinks[last.sink].live
        /\ last.slot \notin Addrs
        /\ last.fd = INVALID
        /\ NothingLeaked

\* C8: a failed open on Windows of a path another sink holds open.
C8_Witness ==
    /\ last.op = "construct"
    /\ last.raised
    /\ platform = "windows"
    /\ \E s \in Slots : sinks[s].live /\ fds[heap[sinks[s].handle_].val] = last.path

----------------------------------------------------------------------------
(* Properties of the sinks when the class's copy operations are used (SpecCopy) *)

\* C7 as stated: every open handle is owned by exactly one sink, and no write and
\* no release is issued on a handle (or its cell) that was released before.
C7_ExclusiveOwnership ==
    /\ \A f \in Fds : IsOpen(fds, f) => Cardinality(Owners(f)) = 1
    /\ ~last.stale
    /\ ~call.stale

----------------------------------------------------------------------------
(* Properties of the two sinks on one chunk set (SpecEquiv) *)

\* C5: when both calls return true the two files hold the same bytes, and chunk i
\* lies at offset + the summed lengths of the chunks before it.
C5_SameFileContents ==
    (prog.pc = "return" /\ prog.cret = "true" /\ prog.vret = "true") =>
        /\ files["consolidated.bin"].bytes = files["vectorized.bin"].bytes
        /\ \A i \in DOMAIN prog.chunks : \A j \in DOMAIN prog.chunks[i] :
              files["vectorized.bin"].bytes[
                  prog.offset + SumFrom(SubSeq(prog.sizes, 1, i - 1), 1) + j]
                      = prog.chunks[i][j]

\* C5: two non-empty chunks at a non-zero offset, both calls completing after
\* partial transfers.
C5_Witness ==
    /\ prog.pc = "return" /\ prog.cret = "true" /\ prog.vret = "true"
    /\ prog.offset > 0
    /\ Len(prog.chunks) = 2 /\ prog.sizes[1] = 2 /\ prog.sizes[2] = 2
    /\ prog.ccalls >= 2 /\ prog.vcalls >= 2
    /\ files["consolidated.bin"].bytes[1] = 9

----------------------------------------------------------------------------
(* Properties of the benchmark driver (SpecDriver, FairDriver) *)

\* C9 as stated: a row is emitted for a chunk count only when both writes of the
\* iteration completed their full transfer (returned true).
C9_RowOnlyIfBothComplete ==
    prog.pc = "cleanup" => (prog.cret = "true" /\ prog.vret = "true")

\* The chunk counts 32, 64, ..., 992.
AllCounts ==
    [i \in 1..((ChunkLimit - FirstChunks + ChunkStep - 1) \div ChunkStep) |->
        FirstChunks + (i - 1) * ChunkStep]

\* C10: the driver attempts the chunk counts 32, 64, ..., 992 once each, in
\* increasing order, whatever iterations fail, and then terminates.
C10_EveryCountAttempted ==
    /\ [](/\ Len(prog.tried) <= Len(AllCounts)
          /\ prog.tried = SubSeq(AllCounts, 1, Len(prog.tried)))
    /\ [](prog.pc = "done" => prog.tried = AllCounts)
    /\ <>(prog.pc = "done")

\* C10: the run is over, with iterations that failed and a last one that did not.
C10_Witness ==
    /\ prog.pc = "done"
    /\ prog.cerr
    /\ prog.row = AllCounts[Len(AllCounts)] * bytes_per_chunk

----------------------------------------------------------------------------
(* More properties of one call of FileSink::write (SpecWrite) *)

\* C12: at every point of a call, with k the bytes transferred so far, the next OS
\* call goes to file offset offset + k and sends the buffer from buffer[k] on, and
\* the file holds buffer[0..k) at [offset, offset + k); so after a true return the
\* file holds the whole buffer there, and after a false return or a failure the
\* prefix transferred stays in the file.
C12_ByteExactBookkeeping ==
    (call.status # "idle" /\ call.end > 0) =>
        LET k == call.moved
            f == files[last.path].bytes
        IN  /\ call.offset = call.offset0 + k
            /\ call.cur = k
            /\ k > 0 => Len(f) >= call.offset0 + k
            /\ \A i \in 1..k : f[call.offset0 + i] = call.data[i]
            /\ call.status = "true" => k = call.end

\* C12: a call at a non-zero offset into a file that held data, which returned false
\* after transferring a part of its buffer in two steps.
C12_Witness ==
    /\ call.status = "false" /\ ~call.hard
    /\ call.offset0 > 0
    /\ call.moved = 2 /\ call.end = 3 /\ call.ncalls = max_retries + 2
    /\ Len(files[last.path].bytes) = Len(Preexisting.bytes)

----------------------------------------------------------------------------
(* Properties of a call with a buffer of gigabytes (SpecWide) *)

\* C13 as stated: every OS write call of a call asks for all that is left of the
\* buffer, end - cur, whatever the length of the buffer, on Windows too.
C13_RequestsAllThatIsLeft ==
    Busy => Remaining(platform, call) = call.end - call.cur

----------------------------------------------------------------------------
(* More properties of the life of a sink (Spec) *)

\* The OS calls that flush a handle.
FlushCalls == {"fsync", "FlushFileBuffers"}

\* C14 as stated: on both platforms the destructor flushes the handle before it
\* releases it: the close of a handle comes right after a flush call on that handle
\* issued by the same destroy_handle.
C14_FlushBeforeRelease ==
    last.op = "destroy" =>
        \A i \in DOMAIN last.os :
            last.os[i][1] = "close" =>
                /\ i > 1
                /\ last.os[i - 1][1] \in FlushCalls
                /\ last.os[i - 1][2] = last.os[i][2]

----------------------------------------------------------------------------
(* Properties of the handle layer called directly (SpecClose) *)

\* C15 as stated: destroy_handle on a null slot, or on a slot whose handle it has
\* released before, closes nothing, frees nothing and touches nothing released.
C15_CloseIsIdempotent ==
    (last.op = "destroy" /\ last.again) => (last.os = <<>> /\ ~last.stale)

----------------------------------------------------------------------------
(* More properties of the benchmark driver (SpecDriver) *)

\* C16 as stated, for the files the run makes itself: at the loop test before every
\* iteration after the first, neither output file of an earlier iteration exists,
\* whether that iteration emitted its row or was skipped.
C16_FilesRemovedBetweenIterations ==
    (prog.pc = "for" /\ Len(prog.tried) >= 1) =>
        \A p \in Paths : files[p] \in {NoFile, Preexisting}

----------------------------------------------------------------------------
(* Properties of write_vectors (SpecEquiv) *)

\* C17: at every point of a write_vectors call, with k the bytes flushed so far,
\* the buffers before done + 1 and part bytes of buffer done + 1 make up k, the
\* next gather call goes to file offset offset + k, and the file holds the first k
\* bytes of the chunks in order at [offset, offset + k). The call returns true only
\* with every byte flushed, false only after three zero-progress attempts in a row
\* (and then without raising), and raises only on a hard failure.
C17_VectoredRecovery ==
    (vcall.status # "idle" /\ Enumerated(prog)) =>
        LET total == SumFrom(vcall.sizes, 1)
            k == total - vcall.left
            all == Concat(prog.chunks, 1)
            f == files["vectorized.bin"].bytes
        IN  /\ vcall.offset = vcall.offset0 + k
            /\ SumRange(vcall.sizes, 1, vcall.done) + vcall.part = k
            /\ vcall.done < Len(vcall.sizes) =>
                   (vcall.part = 0 \/ vcall.part < vcall.sizes[vcall.done + 1])
            /\ k > 0 => Len(f) >= vcall.offset0 + k
            /\ \A i \in 1..k : f[vcall.offset0 + i] = all[i]
            /\ vcall.status = "true" <=> (k = total /\ vcall.msg = <<>>)
            /\ vcall.status = "false" <=>
                   (k < total /\ vcall.retries = max_retries /\ vcall.msg = <<>>)
            /\ vcall.status = "raised" <=> vcall.msg # <<>>

\* C17: a call at a non-zero offset that has flushed the first buffer and one byte
\* of the second, and has seen two zero-progress attempts in a row since.
C17_Witness ==
    /\ vcall.status = "loop"
    /\ vcall.offset0 > 0
    /\ vcall.done = 1 /\ vcall.part = 1
    /\ vcall.sizes[1] = 2 /\ vcall.sizes[2] = 2
    /\ vcall.retries = 2
    /\ vcall.ncalls = 4

----------------------------------------------------------------------------
(* Properties of opening and writing an existing file (SpecFrame) *)

\* What a step may do to the files: a file that exists stays, does not shrink, and
\* changes only at the positions of the range of the call in progress on it; a file
\* comes into being only empty, by the constructor.
FrameStep ==
    \A p \in Paths :
        LET old == files[p].bytes
            new == files'[p].bytes
        IN  IF files[p].exists
            THEN /\ files'[p].exists
                 /\ Len(new) >= Len(old)
                 /\ \A i \in 1..Len(old) :
                        new[i] # old[i] =>
                            /\ Busy /\ p = last.path
                            /\ i > call.offset0
                            /\ i <= call.offset0 + call.end
            ELSE files'[p] # files[p] =>
                    /\ last'.op = "construct" /\ last'.path = p /\ ~last'.raised
                    /\ files'[p] = [exists |-> TRUE, bytes |-> <<>>]

\* C18: opening creates the file when absent and keeps its content when present,
\* and a write changes only the bytes of [offset, offset + len): after a write
\* that returned true the file is max(previous size, offset + len) long, the bytes
\* it had outside the range are as before, and the other file is untouched.
C18_ContentOutsideRangeKept ==
    /\ [][FrameStep]_vars
    /\ []((call.status = "true" /\ call.end > 0) =>
            LET pre == call.pre[last.path].bytes
                f == files[last.path].bytes
            IN  /\ Len(f) = Max(Len(pre), call.offset0 + call.end)
                /\ \A i \in 1..Len(pre) :
                       (i <= call.offset0 \/ i > call.offset0 + call.end) =>
                           f[i] = pre[i]
                /\ \A q \in Paths \ {last.path} : files[q] = call.pre[q])

\* C18: two bytes written at offset 1 into a file of five bytes that was there
\* before the sink was opened.
C18_Witness ==
    /\ call.status = "true"
    /\ call.offset0 = 1 /\ call.end = 2
    /\ files[last.path].bytes = <<9, 1, 2, 9, 9>>

----------------------------------------------------------------------------
(* Termination of one call of FileSink::write (FairWrite) *)

\* What an iteration of the loop does to the bookkeeping: the cursor moves on by a
\* byte at least, or one more retry is used up, or the call ends on a hard failure;
\* the retry counter never goes down.
LoopProgress ==
    /\ call'.retries >= call.retries
    /\ Busy => \/ call'.cur > call.cur /\ call'.retries = call.retries
               \/ call'.cur = call.cur /\ call'.retries = call.retries + 1
               \/ call'.hard /\ ~Busy'

\* C19: a call of FileSink::write on a buffer of length L ends, after L + 2 OS write
\* calls at most, whatever counts the OS returns.
C19_WriteTerminates ==
    /\ [](call.ncalls <= call.end + (max_retries - 1))
    /\ [][LoopProgress]_vars
    /\ (Busy ~> ~Busy)

\* C19: a call that returned false after L + 2 OS write calls, on the longest
\* buffer.
C19_Witness ==
    /\ call.status = "false"
    /\ call.end >= MaxLen
    /\ call.ncalls = call.end + (max_retries - 1)

----------------------------------------------------------------------------
(* Properties of a sink shared by threads (SpecThreads) *)

\* The threads that are inside FileSink::write, between OS write calls.
Inside == {t \in Threads : ThreadCalls[t].status = "loop"}

\* C11 as stated: the write path is guarded by a lock, so no two threads are inside
\* FileSink::write on the one handle at once and their OS write calls never
\* interleave.
C11_WritePathExclusive == Cardinality(Inside) <= 1

====
